---- MODULE Spec2Model ----
(***************************************************************************)
(* Layout core of react-flow-workflow:                                     *)
(*   src/src/lib/layout/index.ts  layoutWorkflow (hint-aware version)      *)
(*   src/unnamed/part_001         layoutWorkflow (order-then-layout)       *)
(*   src/unnamed/part_000         orderNodesAndEdgesByDescendantProximity  *)
(* Dagre is an external library; it is abstracted as a deterministic       *)
(* layered placement (DagreLayout) of the graph it is handed.              *)
(***************************************************************************)
EXTENDS Integers, Sequences, FiniteSets, TLC

VARIABLES nodes, edges, config, impl, pc, g, out, memo,
          visited, orderedNodes, orderedEdges, stack, cursor,
          nodeIdCounter, edgeIdCounter, isLayouting, timers, unlaid

(* the hook's module counters, its isLayouting ref and its pending timeouts;
   unlaid records that the state holds a change no applyLayout has seen *)
hookVars == <<nodeIdCounter, edgeIdCounter, isLayouting, timers, unlaid>>

vars == <<nodes, edges, config, impl, pc, g, out, memo,
          visited, orderedNodes, orderedEdges, stack, cursor,
          nodeIdCounter, edgeIdCounter, isLayouting, timers, unlaid>>

----------------------------------------------------------------------------
(* Bounds of the model *)
MaxNodes == 3
MaxEdges == 2
MaxOrderEdges == 3
MaxHintedEdges == 1

(* Program constants: the `??` fallbacks of layoutWorkflow *)
DefaultNodeWidth == 200
DefaultNodeHeight == 80
DefaultHorizontal == 150
DefaultVertical == 120

----------------------------------------------------------------------------
(* Optional values: `undefined` is the empty sequence, a value v is <<v>> *)
Undefined == <<>>
Some(v) == <<v>>
IsDefined(o) == o # Undefined

(* a ?? b *)
Coalesce(o, d) == IF o = Undefined THEN d ELSE o[1]

Range(s) == {s[i] : i \in 1..Len(s)}

Max(S) == CHOOSE m \in S : \A x \in S : x <= m

(* Array.prototype.filter *)
Filter(s, P(_)) == SelectSeq(s, P)

(* Array.prototype.reverse, on a copy *)
Reversed(s) == [i \in 1..Len(s) |-> s[Len(s) + 1 - i]]

IndexOf(s, x) == IF \E i \in 1..Len(s) : s[i] = x
                 THEN CHOOSE i \in 1..Len(s) : s[i] = x /\ \A j \in 1..(i - 1) : s[j] # x
                 ELSE 0

----------------------------------------------------------------------------
(* graphlib.Graph: vertices and edges in insertion order, one label per
   vertex.  A vertex created by setEdge for a missing endpoint has no
   label; Dagre gives such a vertex width 0 and height 0. *)
NoLabel == [width |-> Undefined, height |-> Undefined]

NewGraph == [vs |-> <<>>, label |-> <<>>, es |-> <<>>,
             rankdir |-> "TB", ranksep |-> 50, nodesep |-> 50]

SetGraph(gr, rankdir, ranksep, nodesep) ==
    [gr EXCEPT !.rankdir = rankdir, !.ranksep = ranksep, !.nodesep = nodesep]

HasVertex(gr, v) == v \in Range(gr.vs)

SetNode(gr, v, lab) ==
    IF HasVertex(gr, v)
    THEN [gr EXCEPT !.label[IndexOf(gr.vs, v)] = lab]
    ELSE [gr EXCEPT !.vs = Append(gr.vs, v), !.label = Append(gr.label, lab)]

EnsureVertex(gr, v) == IF HasVertex(gr, v) THEN gr ELSE SetNode(gr, v, NoLabel)

SetEdge(gr, v, w) ==
    LET g1 == EnsureVertex(EnsureVertex(gr, v), w)
    IN  IF <<v, w>> \in Range(g1.es) THEN g1
        ELSE [g1 EXCEPT !.es = Append(g1.es, <<v, w>>)]

RECURSIVE SetNodes(_, _, _)
SetNodes(gr, ns, labs) ==
    IF ns = <<>> THEN gr
    ELSE SetNodes(SetNode(gr, Head(ns).id, Head(labs)), Tail(ns), Tail(labs))

RECURSIVE SetEdges(_, _)
SetEdges(gr, es) ==
    IF es = <<>> THEN gr
    ELSE SetEdges(SetEdge(gr, Head(es).source, Head(es).target), Tail(es))

----------------------------------------------------------------------------
(* Dagre.layout, abstracted.  Self-loops are dropped, cycles are broken by
   reversing the back edges of a depth-first search over the vertices in
   insertion order, a vertex is ranked by its longest path from a source,
   the vertices of a rank keep their insertion order, and coordinates are
   centre-anchored: consecutive ranks are ranksep apart, consecutive
   vertices of a rank nodesep apart. *)
OutEdges(gr, v) == Filter(gr.es, LAMBDA e : e[1] = v /\ e[2] # v)

RECURSIVE DfsFas(_, _, _)
RECURSIVE DfsFasOut(_, _, _)
DfsFas(gr, v, st) ==
    IF v \in st.seen THEN st
    ELSE LET st1 == [st EXCEPT !.seen = @ \cup {v}, !.onStack = @ \cup {v}]
             st2 == DfsFasOut(gr, OutEdges(gr, v), st1)
         IN  [st2 EXCEPT !.onStack = @ \ {v}]

DfsFasOut(gr, outs, st) ==
    IF outs = <<>> THEN st
    ELSE LET e == Head(outs)
             st1 == IF e[2] \in st.onStack
                    THEN [st EXCEPT !.fas = @ \cup {e}]
                    ELSE DfsFas(gr, e[2], st)
         IN  DfsFasOut(gr, Tail(outs), st1)

RECURSIVE DfsFasAll(_, _, _)
DfsFasAll(gr, vs, st) ==
    IF vs = <<>> THEN st ELSE DfsFasAll(gr, Tail(vs), DfsFas(gr, Head(vs), st))

FeedbackArcs(gr) == DfsFasAll(gr, gr.vs, [seen |-> {}, onStack |-> {}, fas |-> {}]).fas

AcyclicEdges(gr) ==
    LET fas == FeedbackArcs(gr)
    IN  {e \in Range(gr.es) : e[1] # e[2] /\ e \notin fas}
            \cup {<<e[2], e[1]>> : e \in fas}

RECURSIVE RankOf(_, _)
RankOf(dag, v) ==
    LET preds == {e[1] : e \in {d \in dag : d[2] = v}}
    IN  IF preds = {} THEN 0 ELSE 1 + Max({RankOf(dag, u) : u \in preds})

DagreLayout(gr) ==
    LET dag == AcyclicEdges(gr)
        n == Len(gr.vs)
        rank == [i \in 1..n |-> RankOf(dag, gr.vs[i])]
        W == [i \in 1..n |-> Coalesce(gr.label[i].width, 0)]
        H == [i \in 1..n |-> Coalesce(gr.label[i].height, 0)]
        tb == gr.rankdir = "TB"
        flow == [i \in 1..n |-> IF tb THEN H[i] ELSE W[i]]
        cross == [i \in 1..n |-> IF tb THEN W[i] ELSE H[i]]
        maxRank == IF n = 0 THEN 0 ELSE Max({rank[i] : i \in 1..n})
        thick == [r \in 0..maxRank |->
                    Max({0} \cup {flow[i] : i \in {j \in 1..n : rank[j] = r}})]
        RECURSIVE Before(_)
        Before(r) == IF r = 0 THEN 0
                     ELSE Before(r - 1) + thick[r - 1] + gr.ranksep
        flowPos == [i \in 1..n |-> Before(rank[i]) + (thick[rank[i]] \div 2)]
        RECURSIVE Left(_, _)
        Left(i, j) == IF j = 0 THEN 0
                      ELSE Left(i, j - 1)
                           + (IF rank[j] = rank[i] THEN cross[j] + gr.nodesep ELSE 0)
        crossPos == [i \in 1..n |-> Left(i, i - 1) + (cross[i] \div 2)]
    IN  [i \in 1..n |->
            [id |-> gr.vs[i],
             x |-> IF tb THEN crossPos[i] ELSE flowPos[i],
             y |-> IF tb THEN flowPos[i] ELSE crossPos[i]]]

(* g.node(id) after layout *)
GraphNode(laid, id) == laid[CHOOSE i \in DOMAIN laid : laid[i].id = id]

----------------------------------------------------------------------------
(* layoutWorkflow of src/src/lib/layout/index.ts *)

(* a graph kept across calls instead of one built per call *)
ReuseGraph == g

(* new Dagre.graphlib.Graph(): every call builds its own graph *)
CreateGraph == NewGraph

(* config.spacing?.horizontal, config.spacing?.vertical *)
SpacingHorizontal(cfg) ==
    IF cfg.spacing = Undefined THEN Undefined ELSE cfg.spacing[1].horizontal
SpacingVertical(cfg) ==
    IF cfg.spacing = Undefined THEN Undefined ELSE cfg.spacing[1].vertical

(* ranksep is spacing.horizontal and nodesep spacing.vertical, whatever rankdir *)
LayoutGraphConfig(gr, cfg) ==
    SetGraph(gr, Coalesce(cfg.rankdir, "LR"),
             Coalesce(SpacingHorizontal(cfg), DefaultHorizontal),
             Coalesce(SpacingVertical(cfg), DefaultVertical))

NodeLabel(cfg, node) ==
    [width |-> Some(Coalesce(cfg.nodeWidth, Coalesce(node.width, DefaultNodeWidth))),
     height |-> Some(Coalesce(cfg.nodeHeight, Coalesce(node.height, DefaultNodeHeight)))]

BuildGraph(ns, es, cfg) ==
    LET g0 == LayoutGraphConfig(CreateGraph, cfg)
        g1 == SetNodes(g0, ns, [i \in 1..Len(ns) |-> NodeLabel(cfg, ns[i])])
    IN  SetEdges(g1, es)

BasePosition(laid, id) ==
    LET p == GraphNode(laid, id) IN [x |-> p.x, y |-> p.y]

(* a find that falls back to the first node when nothing matches *)
FindNodeOrFirst(ns, id) ==
    LET hits == Filter(ns, LAMBDA n : n.id = id)
    IN  IF hits = <<>> THEN (IF ns = <<>> THEN Undefined ELSE Some(Head(ns)))
        ELSE Some(Head(hits))

(* nodes.find((n) => n.id === id): the first match, or undefined *)
FindNode(ns, id) ==
    LET hits == Filter(ns, LAMBDA n : n.id = id)
    IN  IF hits = <<>> THEN Undefined ELSE Some(Head(hits))

(* the afterNodeId rule without the half-width shift of the vertical flow *)
AfterPositionAligned(cfg, afterPosition) ==
    IF cfg.rankdir = Some("LR")
    THEN [x |-> afterPosition.x + Coalesce(cfg.nodeWidth, DefaultNodeWidth)
                    + Coalesce(SpacingHorizontal(cfg), DefaultHorizontal),
          y |-> afterPosition.y]
    ELSE [x |-> afterPosition.x,
          y |-> afterPosition.y + Coalesce(cfg.nodeHeight, DefaultNodeHeight)
                    + Coalesce(SpacingVertical(cfg), DefaultVertical)]

(* the afterNodeId rule with the two spacing fields mixed up *)
AfterPositionSwapped(cfg, afterPosition) ==
    IF cfg.rankdir = Some("LR")
    THEN [x |-> afterPosition.x + Coalesce(cfg.nodeWidth, DefaultNodeWidth)
                    + Coalesce(SpacingVertical(cfg), DefaultVertical),
          y |-> afterPosition.y]
    ELSE [x |-> afterPosition.x - (Coalesce(cfg.nodeWidth, DefaultNodeWidth) \div 2),
          y |-> afterPosition.y + Coalesce(cfg.nodeHeight, DefaultNodeHeight)
                    + Coalesce(SpacingHorizontal(cfg), DefaultHorizontal)]

(* afterNodeId rule, lines 58-88 *)
AfterPosition(cfg, afterPosition) ==
    IF cfg.rankdir = Some("LR")
    THEN [x |-> afterPosition.x + Coalesce(cfg.nodeWidth, DefaultNodeWidth)
                    + Coalesce(SpacingHorizontal(cfg), DefaultHorizontal),
          y |-> afterPosition.y]
    ELSE [x |-> afterPosition.x - (Coalesce(cfg.nodeWidth, DefaultNodeWidth) \div 2),
          y |-> afterPosition.y + Coalesce(cfg.nodeHeight, DefaultNodeHeight)
                    + Coalesce(SpacingVertical(cfg), DefaultVertical)]

(* nodes.reduce without an initial value: the accumulator starts at nodes[0];
   the comparison reads the position the node came in with *)
RECURSIVE Topmost(_, _)
Topmost(acc, rest) ==
    IF rest = <<>> THEN acc
    ELSE Topmost(IF Head(rest).position.y < acc.position.y THEN Head(rest) ELSE acc,
                 Tail(rest))

RECURSIVE Bottommost(_, _)
Bottommost(acc, rest) ==
    IF rest = <<>> THEN acc
    ELSE Bottommost(IF Head(rest).position.y > acc.position.y THEN Head(rest) ELSE acc,
                    Tail(rest))

ReferenceNode(ns, handlerPosition) ==
    IF handlerPosition = "top" THEN Topmost(Head(ns), Tail(ns))
    ELSE Bottommost(Head(ns), Tail(ns))

(* handlerPosition rule, lines 114-134 *)
HandlerPosition(cfg, handlerPosition, refPosition) ==
    [x |-> refPosition.x - (Coalesce(cfg.nodeWidth, DefaultNodeWidth) \div 2),
     y |-> IF handlerPosition = "top"
           THEN refPosition.y - Coalesce(cfg.nodeHeight, DefaultNodeHeight)
                    - Coalesce(SpacingVertical(cfg), DefaultVertical)
           ELSE refPosition.y + Coalesce(cfg.nodeHeight, DefaultNodeHeight)
                    + Coalesce(SpacingVertical(cfg), DefaultVertical)]

FinalPosition(ns, cfg, laid, node) ==
    LET base == BasePosition(laid, node.id)
        afterNode == IF IsDefined(node.data.afterNodeId)
                     THEN FindNode(ns, node.data.afterNodeId[1]) ELSE Undefined
        p1 == IF IsDefined(afterNode)
              THEN AfterPosition(cfg, BasePosition(laid, afterNode[1].id))
              ELSE base
    IN  IF IsDefined(node.data.handlerPosition) /\ cfg.rankdir = Some("TB")
        THEN LET ref == ReferenceNode(ns, node.data.handlerPosition[1])
             IN  IF ref.id # node.id
                 THEN HandlerPosition(cfg, node.data.handlerPosition[1],
                                      BasePosition(laid, ref.id))
                 ELSE p1
        ELSE p1

(* { ...node, position: finalPosition }: a new object *)
Positioned(node, position) == [node EXCEPT !.position = position]

(* a map that loses the nodes whose afterNodeId names no node *)
FinalNodesResolvedOnly(ns, cfg, laid) ==
    LET kept == Filter(ns, LAMBDA n : IsDefined(n.data.afterNodeId)
                                        => IsDefined(FindNode(ns, n.data.afterNodeId[1])))
    IN  [i \in 1..Len(kept) |-> Positioned(kept[i], FinalPosition(ns, cfg, laid, kept[i]))]

FinalNodes(ns, cfg, laid) ==
    [i \in 1..Len(ns) |-> Positioned(ns[i], FinalPosition(ns, cfg, laid, ns[i]))]

(* what the call leaves in the caller's node array: map() and the spread
   build new objects, nothing is assigned to the argument *)
ArgNodesAfterMap(ns, finalNodes) == ns

(* a result that keeps only the edges joining two nodes of the input *)
LayoutEdgesResolved(es) ==
    Filter(es, LAMBDA e : e.source \in {nodes[i].id : i \in 1..Len(nodes)}
                          /\ e.target \in {nodes[i].id : i \in 1..Len(nodes)})

(* the edge list is returned as it came in *)
LayoutEdges(es) == es

----------------------------------------------------------------------------
(* orderNodesAndEdgesByDescendantProximity of src/unnamed/part_000, run one
   processNode call or one forEach iteration at a time.  stack holds the
   active processNode calls with the outgoing edges they still have to
   visit; cursor is the index of the forEach over triggerNodes / nodes. *)
MaxDepth == MaxNodes + 1

NodeIdsOf(ns) == {ns[i].id : i \in 1..Len(ns)}

(* nodes.filter((node) => !edges.some((edge) => edge.target === node.id)) *)
TriggerNodes(ns, es) ==
    Filter(ns, LAMBDA n : ~ \E i \in 1..Len(es) : es[i].target = n.id)

(* the outgoing edges of a node, last first *)
OutgoingEdgesReversed(es, nodeId) == Reversed(Filter(es, LAMBDA e : e.source = nodeId))

(* edges.filter((edge) => edge.source === nodeId) *)
OutgoingEdges(es, nodeId) == Filter(es, LAMBDA e : e.source = nodeId)

(* a traversal that never records a visit *)
MarkVisitedNever(vis, nodeId) == vis

(* nodeInfo.visited = true, set before the outgoing edges are walked *)
MarkVisited(vis, nodeId) == vis \cup {nodeId}

(* orderedNodes.push(nodeInfo.node) *)
Emit(ordered, node) == Append(ordered, node)

(* processNode without the test of the visited flag *)
ProcessNodeUnchecked(nodeId, stk) ==
    IF nodeId \notin {nodes[i].id : i \in 1..Len(nodes)}
    THEN /\ stack' = stk
         /\ UNCHANGED <<visited, orderedNodes>>
    ELSE /\ Len(stk) < MaxDepth
         /\ visited' = visited \cup {nodeId}
         /\ orderedNodes' = Append(orderedNodes, FindNode(nodes, nodeId)[1])
         /\ stack' = Append(stk, SelectSeq(edges, LAMBDA e : e.source = nodeId))

(* processNode(nodeId, orderedNodes) up to its forEach; stk is the call
   stack it is entered from *)
ProcessNode(nodeId, stk) ==
    IF nodeId \notin NodeIdsOf(nodes) \/ nodeId \in visited
    THEN /\ stack' = stk
         /\ UNCHANGED <<visited, orderedNodes>>
    ELSE /\ Len(stk) < MaxDepth
         /\ visited' = MarkVisited(visited, nodeId)
         /\ orderedNodes' = Emit(orderedNodes, FindNode(nodes, nodeId)[1])
         /\ stack' = Append(stk, OutgoingEdges(edges, nodeId))

(* nodeIndexMap.get(id) ?? -1 *)
NodeIndex(ordered, id) ==
    IF id \in NodeIdsOf(ordered) THEN IndexOf([i \in 1..Len(ordered) |-> ordered[i].id], id) - 1
    ELSE -1

(* a comparator that looks at the source first and at the target second *)
EdgeBeforeSourceFirst(ordered, a, b) ==
    LET at == NodeIndex(ordered, a.target)
        bt == NodeIndex(ordered, b.target)
        as == NodeIndex(ordered, a.source)
        bs == NodeIndex(ordered, b.source)
    IN  IF as # bs THEN as < bs
        ELSE IF at # bt THEN at < bt
        ELSE a.id < b.id

(* the comparator of the edge sort, as "a sorts before b" *)
EdgeBefore(ordered, a, b) ==
    LET at == NodeIndex(ordered, a.target)
        bt == NodeIndex(ordered, b.target)
        as == NodeIndex(ordered, a.source)
        bs == NodeIndex(ordered, b.source)
    IN  IF at # bt THEN at < bt
        ELSE IF as # bs THEN as < bs
        ELSE a.id < b.id

RECURSIVE InsertEdge(_, _, _)
InsertEdge(ordered, sorted, e) ==
    IF sorted = <<>> THEN <<e>>
    ELSE IF EdgeBefore(ordered, e, Head(sorted)) THEN <<e>> \o sorted
    ELSE <<Head(sorted)>> \o InsertEdge(ordered, Tail(sorted), e)

(* Array.prototype.sort: stable *)
RECURSIVE SortEdges(_, _)
SortEdges(ordered, es) ==
    IF es = <<>> THEN <<>>
    ELSE InsertEdge(ordered, SortEdges(ordered, SubSeq(es, 1, Len(es) - 1)), es[Len(es)])

(* edges.sort(...) without the slice(): the argument is sorted in place *)
ArgEdgesSortedInPlace(es, sorted) == sorted

(* what the sort leaves in the caller's edge array: edges.slice() copies
   it first, so the in-place sort works on the copy *)
ArgEdgesAfterSort(es, sorted) == es

----------------------------------------------------------------------------
(* layoutWorkflow of src/unnamed/part_001, after the Orderer *)
OrderedLabel(cfg, node) ==
    [width |-> IF IsDefined(cfg.nodeWidth) THEN cfg.nodeWidth ELSE node.width,
     height |-> IF IsDefined(cfg.nodeHeight) THEN cfg.nodeHeight ELSE node.height]

BuildOrderedGraph(ns, es, cfg) ==
    LET g0 == [CreateGraph EXCEPT !.rankdir = Coalesce(cfg.rankdir, "LR")]
        g1 == SetNodes(g0, ns, [i \in 1..Len(ns) |-> OrderedLabel(cfg, ns[i])])
    IN  SetEdges(g1, es)

(* position.x - (node.width || 0) / 2 *)
AnchorShift(node, p) == [x |-> p.x - (Coalesce(node.width, 0) \div 2), y |-> p.y]

OrderedFinalNodes(ns, laid) ==
    [i \in 1..Len(ns) |-> Positioned(ns[i], AnchorShift(ns[i], BasePosition(laid, ns[i].id)))]

----------------------------------------------------------------------------
(* layoutWorkflow of index.ts as a function of its arguments *)
LayoutOf(ns, es, cfg) ==
    [nodes |-> FinalNodes(ns, cfg, DagreLayout(BuildGraph(ns, es, cfg))),
     edges |-> LayoutEdges(es)]

(* a layoutResult that calls layoutWorkflow whatever the node list *)
LayoutResultUnguarded(ns, es, cfg) == LayoutOf(ns, es, cfg)

(* layoutResult of the hook: useMemo around layoutWorkflow, with its guard
   for an empty node list *)
LayoutResult(ns, es, cfg) ==
    IF Len(ns) = 0 THEN [nodes |-> <<>>, edges |-> <<>>] ELSE LayoutOf(ns, es, cfg)

----------------------------------------------------------------------------
(* The inputs.  Node ids are 1..n in list order (the code compares ids for
   equality only); an id above n names no node.  A created node sits at
   (0, 0) until a layout or a drag moves it. *)
NoData == [afterNodeId |-> Undefined, handlerPosition |-> Undefined]

NodeDatas(n) ==
    [afterNodeId : {Undefined} \cup {Some(k) : k \in 1..(n + 1)},
     handlerPosition : {Undefined, Some("top"), Some("bottom")}]

NodeSizes == <<[width |-> Undefined, height |-> Undefined],
               [width |-> Some(60), height |-> Some(20)]>>

PlainNode(i) == [id |-> i, position |-> [x |-> 0, y |-> 0],
                 width |-> Undefined, height |-> Undefined, data |-> NoData]

(* at most one node carries hint data: the position computed for a node
   never reads another node's data *)
HintedLists ==
    UNION {{[i \in 1..n |-> [PlainNode(i) EXCEPT !.data = IF i = h THEN d ELSE NoData]]
              : h \in 1..n, d \in NodeDatas(n) \ {NoData}} : n \in 1..MaxNodes}

(* only the first node may declare a size *)
SizedLists ==
    {[i \in 1..n |-> [PlainNode(i) EXCEPT !.width = IF i = 1 THEN NodeSizes[2].width ELSE @,
                                          !.height = IF i = 1 THEN NodeSizes[2].height ELSE @]]
        : n \in 1..MaxNodes}

PlainNodeLists == {[i \in 1..n |-> PlainNode(i)] : n \in 0..MaxNodes}

EdgeLists(n, maxLen) ==
    UNION {[1..k -> [id : {0}, source : 1..(n + 1), target : 1..(n + 1)]]
           : k \in 0..maxLen}

(* edge ids follow creation order (generateEdgeId) *)
WithEdgeIds(es) == [i \in 1..Len(es) |-> [es[i] EXCEPT !.id = i]]

Spacings == {Undefined, Some([horizontal |-> Some(50), vertical |-> Some(70)])}

Configs ==
    {c \in [rankdir : {Undefined, Some("LR"), Some("TB")},
            nodeWidth : {Undefined, Some(100)},
            nodeHeight : {Undefined, Some(40)},
            spacing : Spacings] :
        /\ (c.nodeWidth = Undefined) = (c.nodeHeight = Undefined)
        /\ (c.nodeWidth = Undefined) = (c.spacing = Undefined)}

(* the pending timeouts, counted by what they will call *)
NoTimers == [applyLayout |-> 0, isLayouting |-> 0]

(* a hook that has created nothing and scheduled nothing *)
HookAtRest ==
    /\ nodeIdCounter = 0
    /\ edgeIdCounter = 0
    /\ isLayouting = FALSE
    /\ timers = NoTimers
    /\ unlaid = FALSE

NoOut == [nodes |-> <<>>, edges |-> <<>>]
NoMemo == [kind |-> "none", nodes |-> <<>>, edges |-> <<>>, out |-> NoOut]

InitRest ==
    /\ pc = "idle"
    /\ g = NewGraph
    /\ out = NoOut
    /\ memo = NoMemo
    /\ visited = {}
    /\ orderedNodes = <<>>
    /\ orderedEdges = <<>>
    /\ stack = <<>>
    /\ cursor = 1
    /\ HookAtRest

Init ==
    /\ \/ /\ impl = "index"
          /\ nodes \in HintedLists
          /\ \E es \in EdgeLists(Len(nodes), MaxHintedEdges) : edges = WithEdgeIds(es)
       \/ /\ impl \in {"index", "part_001"}
          /\ nodes \in PlainNodeLists \cup SizedLists
          /\ \E es \in EdgeLists(Len(nodes), MaxEdges) : edges = WithEdgeIds(es)
    /\ config \in Configs
    /\ InitRest

(* the Orderer's caller before it has its graph *)
InitOrder ==
    /\ impl = "part_001"
    /\ nodes = <<>>
    /\ edges = <<>>
    /\ config = [rankdir |-> Some("TB"), nodeWidth |-> Undefined,
                 nodeHeight |-> Undefined, spacing |-> Undefined]
    /\ pc = "input"
    /\ g = NewGraph
    /\ out = NoOut
    /\ memo = NoMemo
    /\ visited = {}
    /\ orderedNodes = <<>>
    /\ orderedEdges = <<>>
    /\ stack = <<>>
    /\ cursor = 1
    /\ HookAtRest

----------------------------------------------------------------------------
(* layoutWorkflow({nodes, edges, config}) of index.ts: synchronous, one step *)
LayoutWorkflow ==
    /\ pc = "idle"
    /\ impl = "index"
    /\ LET gr == BuildGraph(nodes, edges, config)
           laid == DagreLayout(gr)
           finalNodes == FinalNodes(nodes, config, laid)
       IN  /\ g' = gr
           /\ out' = [nodes |-> finalNodes, edges |-> LayoutEdges(edges)]
           /\ nodes' = ArgNodesAfterMap(nodes, finalNodes)
    /\ pc' = "done"
    /\ UNCHANGED <<edges, config, impl, memo, visited, orderedNodes, orderedEdges,
                   stack, cursor>>
    /\ UNCHANGED hookVars

(* part_001 layoutWorkflow enters the Orderer: nodeMap is built unvisited *)
OrderStart ==
    /\ pc = "idle"
    /\ impl = "part_001"
    /\ visited' = {}
    /\ orderedNodes' = <<>>
    /\ orderedEdges' = <<>>
    /\ stack' = <<>>
    /\ cursor' = 1
    /\ pc' = "triggers"
    /\ UNCHANGED <<nodes, edges, config, impl, g, out, memo>>
    /\ UNCHANGED hookVars

(* triggerNodes.forEach((triggerNode) => processNode(triggerNode.id, ...)) *)
OrderTrigger ==
    /\ pc = "triggers"
    /\ stack = <<>>
    /\ LET trig == TriggerNodes(nodes, edges)
       IN  IF cursor <= Len(trig)
           THEN /\ ProcessNode(trig[cursor].id, stack)
                /\ cursor' = cursor + 1
                /\ pc' = pc
           ELSE /\ pc' = "remaining"
                /\ cursor' = 1
                /\ UNCHANGED <<visited, orderedNodes, stack>>
    /\ UNCHANGED <<nodes, edges, config, impl, g, out, memo, orderedEdges>>
    /\ UNCHANGED hookVars

(* one iteration of outgoingEdges.forEach in the innermost processNode *)
OrderVisit ==
    /\ pc \in {"triggers", "remaining"}
    /\ stack # <<>>
    /\ stack[Len(stack)] # <<>>
    /\ LET top == stack[Len(stack)]
           rest == [stack EXCEPT ![Len(stack)] = Tail(top)]
       IN  IF Head(top).target \notin NodeIdsOf(nodes)
           THEN /\ stack' = rest
                /\ UNCHANGED <<visited, orderedNodes>>
           ELSE ProcessNode(Head(top).target, rest)
    /\ UNCHANGED <<nodes, edges, config, impl, pc, g, out, memo, orderedEdges, cursor>>
    /\ UNCHANGED hookVars

(* the innermost processNode returns *)
OrderReturn ==
    /\ pc \in {"triggers", "remaining"}
    /\ stack # <<>>
    /\ stack[Len(stack)] = <<>>
    /\ stack' = SubSeq(stack, 1, Len(stack) - 1)
    /\ UNCHANGED <<nodes, edges, config, impl, pc, g, out, memo, visited,
                   orderedNodes, orderedEdges, cursor>>
    /\ UNCHANGED hookVars

(* nodes.forEach: any node still unvisited *)
OrderRemaining ==
    /\ pc = "remaining"
    /\ stack = <<>>
    /\ IF cursor <= Len(nodes)
       THEN /\ IF nodes[cursor].id \notin visited
               THEN ProcessNode(nodes[cursor].id, stack)
               ELSE UNCHANGED <<visited, orderedNodes, stack>>
            /\ cursor' = cursor + 1
            /\ pc' = pc
       ELSE /\ pc' = "sort"
            /\ cursor' = 1
            /\ UNCHANGED <<visited, orderedNodes, stack>>
    /\ UNCHANGED <<nodes, edges, config, impl, g, out, memo, orderedEdges>>
    /\ UNCHANGED hookVars

(* const orderedEdges = edges.slice().sort(...) *)
OrderSort ==
    /\ pc = "sort"
    /\ LET sorted == SortEdges(orderedNodes, edges)
       IN  /\ orderedEdges' = sorted
           /\ edges' = ArgEdgesAfterSort(edges, sorted)
    /\ pc' = "layout"
    /\ UNCHANGED <<nodes, config, impl, g, out, memo, visited, orderedNodes,
                   stack, cursor>>
    /\ UNCHANGED hookVars

(* part_001 lines 26-56 *)
LayoutOrdered ==
    /\ pc = "layout"
    /\ LET gr == BuildOrderedGraph(orderedNodes, orderedEdges, config)
           laid == DagreLayout(gr)
       IN  /\ g' = gr
           /\ out' = [nodes |-> OrderedFinalNodes(orderedNodes, laid),
                      edges |-> orderedEdges]
    /\ pc' = "done"
    /\ UNCHANGED <<nodes, edges, config, impl, memo, visited, orderedNodes,
                   orderedEdges, stack, cursor>>
    /\ UNCHANGED hookVars

----------------------------------------------------------------------------
(* What the hooks do between two layouts.  memo keeps the input and the
   result of the layout before the change. *)
(* the layout is re-run by the hook that uses index.ts *)
DragYs == {100}

Remember(kind) == [kind |-> kind, nodes |-> nodes, edges |-> edges, out |-> out]

(* a re-render runs layoutWorkflow again on the same state *)
Rerender ==
    /\ pc = "done"
    /\ impl = "index"
    /\ memo.kind = "none"
    /\ memo' = Remember("same")
    /\ pc' = "idle"
    /\ UNCHANGED <<nodes, edges, config, impl, g, out, visited, orderedNodes,
                   orderedEdges, stack, cursor>>
    /\ UNCHANGED hookVars

(* onConnect: setEdges((eds) => addEdge({...connection, id}, eds)); the user
   connects the last node back to the first *)
OnConnect ==
    /\ pc = "done"
    /\ impl = "index"
    /\ memo.kind = "none"
    /\ Len(edges) < MaxEdges
    /\ Len(nodes) >= 1
    /\ edges' = Append(edges, [id |-> Len(edges) + 1,
                                source |-> nodes[Len(nodes)].id, target |-> nodes[1].id])
    /\ memo' = Remember("connected")
    /\ pc' = "idle"
    /\ UNCHANGED <<nodes, config, impl, g, out, visited, orderedNodes,
                   orderedEdges, stack, cursor>>
    /\ UNCHANGED hookVars

(* onEdgesChange removing the edge just connected *)
OnEdgeRemove ==
    /\ pc = "done"
    /\ memo.kind = "connected"
    /\ edges' = SubSeq(edges, 1, Len(edges) - 1)
    /\ memo' = [memo EXCEPT !.kind = "restored"]
    /\ pc' = "idle"
    /\ UNCHANGED <<nodes, config, impl, g, out, visited, orderedNodes,
                   orderedEdges, stack, cursor>>
    /\ UNCHANGED hookVars

(* onNodesChange with a position change: the user drags a node *)
OnNodeDrag ==
    /\ pc = "done"
    /\ impl = "index"
    /\ memo.kind = "none"
    /\ \E i \in 1..Len(nodes), y \in DragYs :
          nodes' = [nodes EXCEPT ![i].position.y = y]
    /\ memo' = Remember("dragged")
    /\ pc' = "idle"
    /\ UNCHANGED <<edges, config, impl, g, out, visited, orderedNodes,
                   orderedEdges, stack, cursor>>
    /\ UNCHANGED hookVars

(* applyLayout: setNodes(layout.nodes) *)
ApplyLayout ==
    /\ pc = "done"
    /\ impl = "index"
    /\ memo.kind = "none"
    /\ nodes' = out.nodes
    /\ memo' = Remember("applied")
    /\ pc' = "idle"
    /\ UNCHANGED <<edges, config, impl, g, out, visited, orderedNodes,
                   orderedEdges, stack, cursor>>
    /\ UNCHANGED hookVars

Next ==
    \/ LayoutWorkflow
    \/ OrderStart
    \/ OrderTrigger
    \/ OrderVisit
    \/ OrderReturn
    \/ OrderRemaining
    \/ OrderSort
    \/ LayoutOrdered
    \/ Rerender
    \/ OnConnect
    \/ OnEdgeRemove
    \/ OnNodeDrag
    \/ ApplyLayout

Spec == Init /\ [][Next]_vars

(* the graph the Orderer is called on: plain nodes, every edge list up to
   MaxOrderEdges *)
ReceiveGraph ==
    /\ pc = "input"
    /\ nodes' \in PlainNodeLists
    /\ \E es \in EdgeLists(Len(nodes'), MaxOrderEdges) : edges' = WithEdgeIds(es)
    /\ pc' = "idle"
    /\ UNCHANGED <<config, impl, g, out, memo, visited, orderedNodes, orderedEdges,
                   stack, cursor>>
    /\ UNCHANGED hookVars

(* one call of part_001's layoutWorkflow *)
RunOrder ==
    \/ OrderStart
    \/ OrderTrigger
    \/ OrderVisit
    \/ OrderReturn
    \/ OrderRemaining
    \/ OrderSort
    \/ LayoutOrdered

NextOrder == ReceiveGraph \/ RunOrder

SpecOrder == InitOrder /\ [][NextOrder]_vars

(* the Orderer is synchronous code: once called, each of its steps is taken
   until it returns *)
SpecOrderFair ==
    /\ SpecOrder
    /\ WF_vars(OrderStart)
    /\ WF_vars(OrderTrigger)
    /\ WF_vars(OrderVisit)
    /\ WF_vars(OrderReturn)
    /\ WF_vars(OrderRemaining)
    /\ WF_vars(OrderSort)

(* a caller that has its result calls again with the same nodes and edges,
   the node list or the edge list (or both) the other way round *)
ReceiveReordered ==
    /\ pc = "done"
    /\ impl = "part_001"
    /\ memo.kind = "none"
    /\ \E ns \in {nodes, Reversed(nodes)}, es \in {edges, Reversed(edges)} :
          /\ <<ns, es>> # <<nodes, edges>>
          /\ nodes' = ns
          /\ edges' = es
    /\ memo' = Remember("reordered")
    /\ pc' = "idle"
    /\ UNCHANGED <<config, impl, g, out, visited, orderedNodes, orderedEdges,
                   stack, cursor>>
    /\ UNCHANGED hookVars

NextReorder == ReceiveGraph \/ RunOrder \/ ReceiveReordered

SpecReorder == InitOrder /\ [][NextReorder]_vars

----------------------------------------------------------------------------
(* useWorkflowBuilder, latest version (useWorkflowBuilder.ts lines 932-1357):
   the node and edge state, what it hands out as nodes and edges
   (layoutResult), and the operations that create and delete.  memo keeps
   the last call: its name, its argument and what it returned. *)
MaxHookNodes == 3
MaxHookEdges == 2
MaxNodeIds == 3
MaxEdgeIds == 2

(* the hook's defaults for nodeWidth, nodeHeight and spacing *)
HookNodeWidth == 200
HookNodeHeight == 80
HookHorizontal == 150
HookVertical == 120

(* the empty string *)
EmptyId == 0

(* !value for an optional id: undefined and '' are falsy *)
Falsy(o) == o = Undefined \/ o = Some(EmptyId)

HookConfigs ==
    {[rankdir |-> Some(d), nodeWidth |-> Some(HookNodeWidth),
      nodeHeight |-> Some(HookNodeHeight),
      spacing |-> Some([horizontal |-> Some(HookHorizontal),
                        vertical |-> Some(HookVertical)])] : d \in {"LR", "TB"}}

(* the data of a node created without hints *)
NoHookData == [afterNodeId |-> Undefined, handlerPosition |-> Undefined,
               relativeTo |-> Undefined, offset |-> Undefined]

(* id: nodeData.id || generateNodeId(); position: { x: 0, y: 0 } *)
NewNode(idArg, data) ==
    [id |-> IF Falsy(idArg) THEN nodeIdCounter + 1 ELSE idArg[1],
     position |-> [x |-> 0, y |-> 0],
     width |-> Undefined, height |-> Undefined, data |-> data]

LastCall(kind, arg, ret) == [kind |-> kind, arg |-> arg, ret |-> ret]

(* createNode: setNodes((nds) => [...nds, newNode]), and the render that
   follows recomputes layoutResult *)
AddNode(kind, idArg, data) ==
    /\ pc = "hook"
    /\ Len(nodes) < MaxHookNodes
    /\ Falsy(idArg) => nodeIdCounter < MaxNodeIds
    /\ nodes' = Append(nodes, NewNode(idArg, data))
    /\ nodeIdCounter' = IF Falsy(idArg) THEN nodeIdCounter + 1 ELSE nodeIdCounter
    /\ memo' = LastCall(kind, idArg, Some(NewNode(idArg, data)))
    /\ out' = LayoutResult(nodes', edges, config)
    /\ UNCHANGED <<edges, config, impl, pc, g, visited, orderedNodes, orderedEdges,
                   stack, cursor, edgeIdCounter, isLayouting, timers, unlaid>>

(* the caller may pass an id of its own *)
CreateNode ==
    \E idArg \in {Undefined, Some(1)} : AddNode("createNode", idArg, NoHookData)

CreateNodeWithVerticalHandlers ==
    \E handlerPosition \in {"top", "bottom"} :
        AddNode("createNodeWithVerticalHandlers", Undefined,
                [NoHookData EXCEPT !.handlerPosition = Some(handlerPosition)])

(* relativeTo and offset are stored in the node's data *)
CreateNodeAtPosition ==
    \E relativeTo \in {Some(1)},
       offset \in {Some([x |-> 100, y |-> 0])} :
        AddNode("createNodeAtPosition", Undefined,
                [NoHookData EXCEPT !.relativeTo = relativeTo, !.offset = offset])

(* the edge createEdge builds; generateEdgeId() runs before the test *)
NewEdge(source, target) ==
    [id |-> edgeIdCounter + 1,
     source |-> Coalesce(source, EmptyId), target |-> Coalesce(target, EmptyId)]

(* a createEdge without its test of source and target *)
ValidEdgeAlways(source, target) == TRUE

(* !(!newEdge.source || !newEdge.target) *)
ValidEdge(source, target) == ~(Falsy(source) \/ Falsy(target))

CreateEdge ==
    /\ pc = "hook"
    /\ edgeIdCounter < MaxEdgeIds
    /\ Len(edges) < MaxHookEdges
    /\ \E source, target \in {Undefined, Some(EmptyId), Some(1), Some(MaxNodeIds + 1)} :
          IF ValidEdge(source, target)
          THEN /\ edges' = Append(edges, NewEdge(source, target))
               /\ memo' = LastCall("createEdge", <<source, target>>,
                                   Some(NewEdge(source, target)))
          ELSE /\ edges' = edges
               /\ memo' = LastCall("createEdge", <<source, target>>, Undefined)
    /\ edgeIdCounter' = edgeIdCounter + 1
    /\ out' = LayoutResult(nodes, edges', config)
    /\ UNCHANGED <<nodes, config, impl, pc, g, visited, orderedNodes, orderedEdges,
                   stack, cursor, nodeIdCounter, isLayouting, timers, unlaid>>

(* a deleteNode that forgets the edges arriving at the node *)
EdgesWithoutSource(es, nodeId) == Filter(es, LAMBDA e : e.source # nodeId)

(* eds.filter((edge) => edge.source !== nodeId && edge.target !== nodeId) *)
EdgesWithout(es, nodeId) ==
    Filter(es, LAMBDA e : e.source # nodeId /\ e.target # nodeId)

(* nds.filter((node) => node.id !== nodeId) *)
NodesWithout(ns, nodeId) == Filter(ns, LAMBDA n : n.id # nodeId)

DeleteNode ==
    /\ pc = "hook"
    /\ nodes # <<>>
    /\ \E nodeId \in 1..(MaxNodeIds + 1) :
          /\ nodes' = NodesWithout(nodes, nodeId)
          /\ edges' = EdgesWithout(edges, nodeId)
          /\ memo' = LastCall("deleteNode", nodeId, Undefined)
    /\ out' = LayoutResult(nodes', edges', config)
    /\ UNCHANGED <<config, impl, pc, g, visited, orderedNodes, orderedEdges,
                   stack, cursor, hookVars>>

InitHook ==
    /\ impl = "hook"
    /\ pc = "hook"
    /\ nodes = <<>>
    /\ edges = <<>>
    /\ config \in HookConfigs
    /\ g = NewGraph
    /\ out = LayoutResult(<<>>, <<>>, config)
    /\ memo = [kind |-> "none", arg |-> Undefined, ret |-> Undefined]
    /\ visited = {}
    /\ orderedNodes = <<>>
    /\ orderedEdges = <<>>
    /\ stack = <<>>
    /\ cursor = 1
    /\ HookAtRest

NextHook ==
    \/ CreateNode
    \/ CreateNodeWithVerticalHandlers
    \/ CreateNodeAtPosition
    \/ CreateEdge
    \/ DeleteNode

SpecHook == InitHook /\ [][NextHook]_vars

(* createNode({}) : no id is passed, generateNodeId() makes one *)
CreateGeneratedNode == AddNode("createNode", Undefined, NoHookData)

(* resetCounters: both module counters go back to 0; no state is set, so
   nothing is rendered again *)
ResetCounters ==
    /\ pc = "hook"
    /\ nodeIdCounter' = 0
    /\ edgeIdCounter' = 0
    /\ memo' = LastCall("resetCounters", Undefined, Undefined)
    /\ UNCHANGED <<nodes, edges, config, impl, pc, g, out, visited, orderedNodes,
                   orderedEdges, stack, cursor, isLayouting, timers, unlaid>>

(* a caller that lets the hook make every id *)
NextIds ==
    \/ CreateGeneratedNode
    \/ DeleteNode
    \/ ResetCounters

SpecIds == InitHook /\ [][NextIds]_vars

----------------------------------------------------------------------------
(* useWorkflowBuilder with autoLayout (useWorkflowBuilder.ts lines 28-371):
   every change of nodes or edges re-runs the effect, which clears its
   pending timeout and, unless there are no nodes or isLayouting is set,
   schedules applyLayout; applyLayout sets isLayouting and schedules its
   reset. *)
MaxAutoNodes == 2
MaxAutoEdges == 1

(* the defaults of that version for nodeWidth and nodeHeight *)
AutoNodeWidth == 150
AutoNodeHeight == 40

AutoConfigs ==
    {[rankdir |-> Some(d), nodeWidth |-> Some(AutoNodeWidth),
      nodeHeight |-> Some(AutoNodeHeight), spacing |-> Undefined] : d \in {"TB", "LR"}}

(* clearTimeout(timeoutId): the timeout of the last effect run, if it is
   still pending *)
ClearTimeout(ts) == [ts EXCEPT !.applyLayout = IF @ > 0 THEN @ - 1 ELSE 0]

(* an effect whose cleanup clears nothing *)
EffectTimersUncleared(ts, ns, layouting) ==
    IF ns = <<>> \/ layouting THEN ts ELSE [ts EXCEPT !.applyLayout = @ + 1]

(* the effect after a render with new nodes or edges: the cleanup clears
   the pending timeout, the body sets a new one unless it returns early *)
EffectTimers(ts, ns, layouting) ==
    IF ns = <<>> \/ layouting
    THEN ClearTimeout(ts)
    ELSE [ClearTimeout(ts) EXCEPT !.applyLayout = @ + 1]

(* a change of the node or edge state by the caller, and the effect after it *)
Mutate(ns, es) ==
    /\ pc = "auto"
    /\ nodes' = ns
    /\ edges' = es
    /\ timers' = EffectTimers(timers, ns, isLayouting)
    /\ unlaid' = (ns # <<>>)
    /\ memo' = NoMemo
    /\ UNCHANGED <<config, impl, pc, g, out, visited, orderedNodes,
                   orderedEdges, stack, cursor, isLayouting>>

AutoCreateNode ==
    /\ Len(nodes) < MaxAutoNodes
    /\ nodeIdCounter < MaxNodeIds
    /\ Mutate(Append(nodes, NewNode(Undefined, NoHookData)), edges)
    /\ nodeIdCounter' = nodeIdCounter + 1
    /\ UNCHANGED edgeIdCounter

AutoCreateEdge ==
    /\ Len(edges) < MaxAutoEdges
    /\ edgeIdCounter < MaxEdgeIds
    /\ \E source, target \in {Some(1), Some(2)} :
          Mutate(nodes, Append(edges, NewEdge(source, target)))
    /\ edgeIdCounter' = edgeIdCounter + 1
    /\ UNCHANGED nodeIdCounter

AutoDeleteNode ==
    /\ \E i \in 1..Len(nodes) :
          Mutate(NodesWithout(nodes, nodes[i].id), EdgesWithout(edges, nodes[i].id))
    /\ UNCHANGED <<nodeIdCounter, edgeIdCounter>>

(* an applyLayout that never takes its early return *)
SkipLayoutNever(layouting) == FALSE

(* if (isLayouting.current) return { nodes, edges } *)
SkipLayout(layouting) == layouting

(* applyLayout past its guard, entered with the timeouts ts pending:
   isLayouting is set, the layout of the current nodes and edges is stored,
   the reset of isLayouting is scheduled, and the render after setNodes
   runs the effect again *)
RunLayout(ts) ==
    LET layout == LayoutOf(nodes, edges, config)
    IN  /\ isLayouting' = TRUE
        /\ nodes' = layout.nodes
        /\ edges' = layout.edges
        /\ out' = layout
        /\ unlaid' = FALSE
        /\ timers' = [EffectTimers(ts, layout.nodes, TRUE) EXCEPT !.isLayouting = @ + 1]

(* the effect's timeout fires and calls applyLayout *)
ApplyLayoutTimeout ==
    /\ pc = "auto"
    /\ timers.applyLayout > 0
    /\ LET fired == [timers EXCEPT !.applyLayout = @ - 1]
       IN  IF SkipLayout(isLayouting)
           THEN /\ timers' = fired
                /\ UNCHANGED <<nodes, edges, out, isLayouting, unlaid>>
           ELSE RunLayout(fired)
    /\ memo' = NoMemo
    /\ UNCHANGED <<config, impl, pc, g, visited, orderedNodes, orderedEdges,
                   stack, cursor, nodeIdCounter, edgeIdCounter>>

(* the caller calls the applyLayout the hook returns; memo keeps what the
   call returned *)
ApplyLayoutCall ==
    /\ pc = "auto"
    /\ IF SkipLayout(isLayouting)
       THEN /\ memo' = [kind |-> "applyLayout", nodes |-> nodes, edges |-> edges,
                        out |-> NoOut]
            /\ UNCHANGED <<nodes, edges, out, isLayouting, timers, unlaid>>
       ELSE /\ RunLayout(timers)
            /\ memo' = [kind |-> "applyLayout", nodes |-> nodes', edges |-> edges',
                        out |-> NoOut]
    /\ UNCHANGED <<config, impl, pc, g, visited, orderedNodes, orderedEdges,
                   stack, cursor, nodeIdCounter, edgeIdCounter>>

(* setTimeout(() => { isLayouting.current = false }, 50): a ref, no render *)
IsLayoutingTimeout ==
    /\ pc = "auto"
    /\ timers.isLayouting > 0
    /\ isLayouting' = FALSE
    /\ timers' = [timers EXCEPT !.isLayouting = @ - 1]
    /\ memo' = NoMemo
    /\ UNCHANGED <<nodes, edges, config, impl, pc, g, out, visited,
                   orderedNodes, orderedEdges, stack, cursor, nodeIdCounter,
                   edgeIdCounter, unlaid>>

InitAuto ==
    /\ impl = "auto"
    /\ pc = "auto"
    /\ nodes = <<>>
    /\ edges = <<>>
    /\ config \in AutoConfigs
    /\ g = NewGraph
    /\ out = NoOut
    /\ memo = NoMemo
    /\ visited = {}
    /\ orderedNodes = <<>>
    /\ orderedEdges = <<>>
    /\ stack = <<>>
    /\ cursor = 1
    /\ HookAtRest

NextAuto ==
    \/ AutoCreateNode
    \/ AutoCreateEdge
    \/ AutoDeleteNode
    \/ ApplyLayoutTimeout
    \/ ApplyLayoutCall
    \/ IsLayoutingTimeout

SpecAuto == InitAuto /\ [][NextAuto]_vars

(* timers fire; the caller may stop calling at any time.  ApplyLayoutTimeout
   is enabled exactly while a timeout of the effect is pending and every
   step of it takes the pending timeout away, so its weak fairness is that
   the timeout is not pending for ever *)
SpecAutoFair ==
    /\ SpecAuto
    /\ WF_vars(IsLayoutingTimeout)
    /\ []<>(timers.applyLayout = 0)

----------------------------------------------------------------------------
(* Properties *)

(* how often an id occurs in a node list *)
Occurrences(ns, id) == Cardinality({i \in 1..Len(ns) : ns[i].id = id})

(* the position of every node of a result, by id *)
PositionsOf(o) == {<<o.nodes[i].id, o.nodes[i].position>> : i \in 1..Len(o.nodes)}

(* s is a rearrangement of t: the same elements, each as often *)
IsPermutation(s, t) ==
    /\ Len(s) = Len(t)
    /\ \A x \in Range(s) \cup Range(t) :
          Cardinality({i \in 1..Len(s) : s[i] = x}) = Cardinality({i \in 1..Len(t) : t[i] = x})

(* nodes without their position field *)
Unpositioned(ns) == [i \in 1..Len(ns) |-> [ns[i] EXCEPT !.position = [x |-> 0, y |-> 0]]]

(* C1: when layoutWorkflow has returned, every id of the input node list
   occurs exactly once in the returned node list and no other id occurs *)
C1_Completeness ==
    pc = "done" =>
        /\ \A id \in NodeIdsOf(nodes) : Occurrences(out.nodes, id) = 1
        /\ NodeIdsOf(out.nodes) \subseteq NodeIdsOf(nodes)
        /\ Len(out.nodes) = Len(nodes)

C1_Witness ==
    /\ pc = "done"
    /\ Len(nodes) >= 3
    /\ \E i \in 1..Len(nodes) :
          /\ IsDefined(nodes[i].data.afterNodeId)
          /\ nodes[i].data.afterNodeId[1] \notin NodeIdsOf(nodes)

(* C2: a layout run again on the same nodes, edges and config, directly or
   after another layout in between, returns the same position for every node *)
C2_Determinism ==
    (pc = "done" /\ memo.kind \in {"same", "restored"}
        /\ nodes = memo.nodes /\ edges = memo.edges)
    => PositionsOf(out) = PositionsOf(memo.out)

C2_Witness ==
    /\ pc = "done"
    /\ memo.kind = "restored"
    /\ nodes = memo.nodes
    /\ edges = memo.edges
    /\ Len(nodes) >= 2
    /\ edges # <<>>

(* C3: two inputs that differ only in the nodes' incoming positions get the
   same output position for every node *)
C3_PositionIndependent ==
    (pc = "done" /\ memo.kind = "dragged"
        /\ Unpositioned(nodes) = Unpositioned(memo.nodes) /\ edges = memo.edges)
    => PositionsOf(out) = PositionsOf(memo.out)

(* C4: laying out the nodes a layout returned, with the same edges and
   config, returns the same position for every node *)
C4_Idempotent ==
    (pc = "done" /\ memo.kind = "applied"
        /\ nodes = memo.out.nodes /\ edges = memo.edges)
    => PositionsOf(out) = PositionsOf(memo.out)

(* C5: no step of layoutWorkflow or of the Orderer changes the node list,
   a node object, the edge list or its order, or the config it was given *)
C5_ArgumentsUnchanged ==
    [][pc # "done" => (nodes' = nodes /\ edges' = edges /\ config' = config)]_vars

C5_Witness ==
    /\ pc = "done"
    /\ impl = "part_001"
    /\ Len(edges) >= 2
    /\ orderedEdges # edges
    /\ PositionsOf(out) # PositionsOf([nodes |-> nodes])

(* C6: when the traversal is over, orderedNodes is a rearrangement of the
   input nodes: every input node once, nothing else *)
C6_OrderedNodesPermutation ==
    pc \in {"sort", "layout", "done"} => IsPermutation(orderedNodes, nodes)

C6_Witness ==
    /\ pc = "sort"
    /\ Len(nodes) >= 3
    /\ orderedNodes # nodes
    /\ \E i \in 1..Len(edges) : edges[i].source = edges[i].target
    /\ \E i \in 1..Len(edges) : edges[i].target \notin NodeIdsOf(nodes)

(* the nodes that lie on a cycle of edges between existing nodes *)
Successors(ns, es, S) ==
    {es[i].target : i \in {j \in 1..Len(es) : es[j].source \in S}} \cap NodeIdsOf(ns)

RECURSIVE Closure(_, _, _, _)
Closure(ns, es, S, k) ==
    IF k = 0 THEN S ELSE Closure(ns, es, S \cup Successors(ns, es, S), k - 1)

OnCycle(ns, es) ==
    {v \in NodeIdsOf(ns) : v \in Closure(ns, es, Successors(ns, es, {v}), Len(es))}

(* C7: on a graph with a cycle the Orderer comes to its end, and every node
   on a cycle is then in orderedNodes exactly once *)
C7_CycleSafety ==
    (pc = "triggers" /\ OnCycle(nodes, edges) # {})
    ~> (/\ pc = "layout"
        /\ \A v \in OnCycle(nodes, edges) : Occurrences(orderedNodes, v) = 1)

C7_Witness ==
    /\ pc = "layout"
    /\ Len(nodes) = 3
    /\ TriggerNodes(nodes, edges) = <<>>
    /\ Len(edges) = 3
    /\ OnCycle(nodes, edges) = NodeIdsOf(nodes)
    /\ \A i \in 1..Len(edges) : edges[i].source # edges[i].target
    /\ \A v \in NodeIdsOf(nodes) : Occurrences(orderedNodes, v) = 1

(* C8: the returned edge list is a rearrangement of the input edge list; an
   edge joining two existing nodes is in it exactly once, unaltered *)
C8_EdgeSurvival ==
    pc = "done" =>
        /\ IsPermutation(out.edges, edges)
        /\ \A i \in 1..Len(edges) :
              (edges[i].source \in NodeIdsOf(nodes) /\ edges[i].target \in NodeIdsOf(nodes))
              => Cardinality({j \in 1..Len(out.edges) : out.edges[j] = edges[i]}) = 1

C8_Witness ==
    /\ pc = "done"
    /\ impl = "part_001"
    /\ Len(edges) >= 2
    /\ out.edges # edges
    /\ \A i \in 1..Len(edges) :
          edges[i].source \in NodeIdsOf(nodes) /\ edges[i].target \in NodeIdsOf(nodes)

(* the configured box and the spacing of a layout *)
BoxWidth == Coalesce(config.nodeWidth, DefaultNodeWidth)
BoxHeight == Coalesce(config.nodeHeight, DefaultNodeHeight)
HorizontalSpacing == Coalesce(SpacingHorizontal(config), DefaultHorizontal)
VerticalSpacing == Coalesce(SpacingVertical(config), DefaultVertical)

(* the nodes whose afterNodeId names a node of the input *)
AfterResolved == {i \in 1..Len(nodes) :
                    /\ IsDefined(nodes[i].data.afterNodeId)
                    /\ nodes[i].data.afterNodeId[1] \in NodeIdsOf(nodes)}

(* the layered position of the node Y = nodes[i] is placed after *)
ReferenceBase(i) == BasePosition(DagreLayout(g), nodes[i].data.afterNodeId[1])

(* C9: under LR a node placed after an existing node X sits at X's layered
   position moved right by the box width plus the horizontal spacing *)
C9_AfterNodeLR ==
    (pc = "done" /\ impl = "index" /\ config.rankdir = Some("LR")) =>
        \A i \in AfterResolved :
            out.nodes[i].position =
                [x |-> ReferenceBase(i).x + BoxWidth + HorizontalSpacing,
                 y |-> ReferenceBase(i).y]

C9_Witness ==
    /\ pc = "done"
    /\ impl = "index"
    /\ config.rankdir = Some("LR")
    /\ IsDefined(config.nodeWidth)
    /\ edges # <<>>
    /\ \E i \in AfterResolved : nodes[i].data.afterNodeId[1] # nodes[i].id

(* C10 as claimed: under TB a node placed after an existing node X sits at
   X's layered position moved down by the box height plus the vertical
   spacing, with the same x *)
C10_AfterNodeTBAligned ==
    (pc = "done" /\ impl = "index" /\ config.rankdir = Some("TB")) =>
        \A i \in AfterResolved :
            nodes[i].data.handlerPosition = Undefined =>
                out.nodes[i].position =
                    [x |-> ReferenceBase(i).x,
                     y |-> ReferenceBase(i).y + BoxHeight + VerticalSpacing]

(* C10 amended: under TB a node placed after an existing node X, and with no
   handlerPosition, sits at X's layered position moved down by the box
   height plus the vertical spacing and left by half the box width *)
C10_AfterNodeTB ==
    (pc = "done" /\ impl = "index" /\ config.rankdir = Some("TB")) =>
        \A i \in AfterResolved :
            nodes[i].data.handlerPosition = Undefined =>
                out.nodes[i].position =
                    [x |-> ReferenceBase(i).x - (BoxWidth \div 2),
                     y |-> ReferenceBase(i).y + BoxHeight + VerticalSpacing]

C10_Witness ==
    /\ pc = "done"
    /\ impl = "index"
    /\ config.rankdir = Some("TB")
    /\ edges # <<>>
    /\ \E i \in AfterResolved :
          /\ nodes[i].data.afterNodeId[1] # nodes[i].id
          /\ nodes[i].data.handlerPosition = Undefined

(* the node list with the afterNodeId of node i taken away *)
WithoutAfterNode(ns, i) == [ns EXCEPT ![i].data.afterNodeId = Undefined]

(* the nodes whose afterNodeId names no node of the input *)
AfterDangling == {i \in 1..Len(nodes) :
                    /\ IsDefined(nodes[i].data.afterNodeId)
                    /\ nodes[i].data.afterNodeId[1] \notin NodeIdsOf(nodes)}

(* C11: a node whose afterNodeId names no node gets the position the same
   layout gives it when it carries no afterNodeId at all *)
C11_DanglingAfterNode ==
    (pc = "done" /\ impl = "index") =>
        \A i \in AfterDangling :
            out.nodes[i].position
                = LayoutOf(WithoutAfterNode(nodes, i), edges, config).nodes[i].position

C11_Witness ==
    /\ pc = "done"
    /\ impl = "index"
    /\ Len(nodes) >= 2
    /\ edges # <<>>
    /\ \E i \in AfterDangling : i > 1 /\ out.nodes[i].position \in [x : Int, y : Int]

(* C12 as claimed: a node whose afterNodeId is its own id keeps its layered
   position, and every returned node has a number for x and for y *)
C12_SelfReferenceKeepsBase ==
    (pc = "done" /\ impl = "index") =>
        /\ \A i \in 1..Len(nodes) :
              (/\ nodes[i].data.afterNodeId = Some(nodes[i].id)
               /\ nodes[i].data.handlerPosition = Undefined)
              => out.nodes[i].position = BasePosition(DagreLayout(g), nodes[i].id)
        /\ \A i \in 1..Len(out.nodes) : out.nodes[i].position \in [x : Int, y : Int]

(* smallest element of a set of numbers *)
Min(S) == CHOOSE m \in S : \A x \in S : m <= x

(* the layered y and the incoming y of the nodes other than node i *)
OtherBaseYs(i) ==
    {BasePosition(DagreLayout(g), nodes[j].id).y : j \in (1..Len(nodes)) \ {i}}
OtherIncomingYs(i) == {nodes[j].position.y : j \in (1..Len(nodes)) \ {i}}

(* the x a node gets from a reference at the extreme y among the others *)
ExtremeXs(i, y) ==
    {BasePosition(DagreLayout(g), nodes[j].id).x - (BoxWidth \div 2)
        : j \in {k \in (1..Len(nodes)) \ {i} :
                    \/ BasePosition(DagreLayout(g), nodes[k].id).y = y
                    \/ nodes[k].position.y = y}}

(* C13 as claimed: under TB a node with handlerPosition bottom sits the box
   height plus the vertical spacing below the largest y of the other nodes,
   one with top as far above the smallest, at the x of that node less half
   the box width; the y of the others read either as their layered y or as
   the y they came in with *)
C13_VerticalExtreme ==
    (pc = "done" /\ impl = "index" /\ config.rankdir = Some("TB")) =>
        \A i \in 1..Len(nodes) :
            (IsDefined(nodes[i].data.handlerPosition) /\ Len(nodes) >= 2) =>
                \E ys \in {OtherBaseYs(i), OtherIncomingYs(i)} :
                    LET bottom == nodes[i].data.handlerPosition = Some("bottom")
                        extreme == IF bottom THEN Max(ys) ELSE Min(ys)
                    IN  /\ out.nodes[i].position.y
                              = IF bottom THEN extreme + BoxHeight + VerticalSpacing
                                ELSE extreme - BoxHeight - VerticalSpacing
                        /\ out.nodes[i].position.x \in ExtremeXs(i, extreme)

(* C14 as claimed: the gap between consecutive layers handed to Dagre is the
   horizontal spacing under LR and the vertical spacing under TB, so under
   TB the two ends of an edge between different nodes are at least the box
   height plus the vertical spacing apart in y *)
C14_InterLayerSpacing ==
    (pc = "done" /\ impl = "index") =>
        /\ g.ranksep = IF g.rankdir = "TB" THEN VerticalSpacing ELSE HorizontalSpacing
        /\ g.rankdir = "TB" =>
              \A k \in 1..Len(edges) :
                  (/\ edges[k].source \in NodeIdsOf(nodes)
                   /\ edges[k].target \in NodeIdsOf(nodes)
                   /\ edges[k].source # edges[k].target)
                  => LET a == BasePosition(DagreLayout(g), edges[k].source).y
                         b == BasePosition(DagreLayout(g), edges[k].target).y
                     IN  (IF a > b THEN a - b ELSE b - a) >= BoxHeight + VerticalSpacing

(* C15 as claimed: with no nodes, layoutWorkflow and the hook's layoutResult
   both return no nodes and no edges, whatever the edge list *)
C15_EmptyGraphNoEdges ==
    (pc = "done" /\ impl = "index" /\ nodes = <<>>) =>
        /\ out = [nodes |-> <<>>, edges |-> <<>>]
        /\ LayoutResult(nodes, edges, config) = [nodes |-> <<>>, edges |-> <<>>]

(* C15 amended: with no nodes, layoutWorkflow returns no nodes and the edge
   list it was given; the hook's layoutResult returns no nodes and no edges *)
C15_EmptyGraph ==
    (pc = "done" /\ impl = "index" /\ nodes = <<>>) =>
        /\ out = [nodes |-> <<>>, edges |-> edges]
        /\ LayoutResult(nodes, edges, config) = [nodes |-> <<>>, edges |-> <<>>]

C15_Witness ==
    /\ pc = "done"
    /\ impl = "index"
    /\ nodes = <<>>
    /\ edges # <<>>
    /\ out.edges = edges

(* the nodes made by createNode and createNodeWithVerticalHandlers alone,
   each with an id of its own *)
OnlyPlainAndHandlerNodes ==
    /\ edges = <<>>
    /\ \A i, j \in 1..Len(nodes) : nodes[i].id = nodes[j].id => i = j
    /\ \A i \in 1..Len(nodes) :
          nodes[i].data.afterNodeId = Undefined /\ nodes[i].data.relativeTo = Undefined

(* C16 as claimed: under TB, whatever the order of the createNode and
   createNodeWithVerticalHandlers calls, a node created with 'top' is handed
   out with a y smaller than that of every node created otherwise, and one
   created with 'bottom' with a larger y *)
C16_HandlersAtExtremes ==
    (pc = "hook" /\ config.rankdir = Some("TB") /\ OnlyPlainAndHandlerNodes) =>
        \A i, j \in 1..Len(out.nodes) :
            (/\ IsDefined(out.nodes[i].data.handlerPosition)
             /\ out.nodes[j].data.handlerPosition # out.nodes[i].data.handlerPosition)
            => IF out.nodes[i].data.handlerPosition = Some("top")
               THEN out.nodes[i].position.y < out.nodes[j].position.y
               ELSE out.nodes[i].position.y > out.nodes[j].position.y

(* C17 as claimed: a node made by createNodeAtPosition relative to a node
   created before it is handed out at that node's position plus the offset *)
C17_RelativePosition ==
    pc = "hook" =>
        \A i \in 1..Len(out.nodes) :
            \A j \in 1..(i - 1) :
                (/\ out.nodes[i].data.relativeTo = Some(out.nodes[j].id)
                 /\ \A k \in 1..(j - 1) : out.nodes[k].id # out.nodes[j].id)
                => LET offset == Coalesce(out.nodes[i].data.offset, [x |-> 0, y |-> 0])
                   IN  out.nodes[i].position
                          = [x |-> out.nodes[j].position.x + offset.x,
                             y |-> out.nodes[j].position.y + offset.y]

(* C18: a deleteNode(id) leaves exactly the nodes whose id is not id and the
   edges that neither start nor end at id, in the order they had; no node
   and no edge of the new state names id *)
C18_DeleteNode ==
    [][memo'.kind = "deleteNode" =>
          /\ nodes' = SelectSeq(nodes, LAMBDA n : n.id # memo'.arg)
          /\ edges' = SelectSeq(edges, LAMBDA e : e.source # memo'.arg
                                                  /\ e.target # memo'.arg)
          /\ \A i \in 1..Len(nodes') : nodes'[i].id # memo'.arg
          /\ \A i \in 1..Len(edges') :
                edges'[i].source # memo'.arg /\ edges'[i].target # memo'.arg]_vars

C18_Witness ==
    /\ pc = "hook"
    /\ memo.kind = "deleteNode"
    /\ memo.arg = 2
    /\ nodeIdCounter = MaxNodeIds
    /\ edgeIdCounter = MaxEdgeIds
    /\ Len(nodes) = 2
    /\ nodes[1].id = 1
    /\ nodes[2].id = 3
    /\ Len(edges) = 1
    /\ edges[1].id = 2

(* C19: a createEdge whose source or target is missing or empty returns
   null and leaves the edge list as it was; one with both returns the new
   edge and puts exactly it at the end of the edge list, whether or not its
   ends name a node *)
C19_CreateEdge ==
    [][memo'.kind = "createEdge" =>
          LET source == memo'.arg[1]
              target == memo'.arg[2]
          IN  IF source \in {Undefined, Some(EmptyId)} \/ target \in {Undefined, Some(EmptyId)}
              THEN memo'.ret = Undefined /\ edges' = edges
              ELSE /\ IsDefined(memo'.ret)
                   /\ memo'.ret[1].source = source[1]
                   /\ memo'.ret[1].target = target[1]
                   /\ edges' = Append(edges, memo'.ret[1])]_vars

C19_Witness ==
    /\ pc = "hook"
    /\ memo.kind = "createEdge"
    /\ IsDefined(memo.ret)
    /\ Len(edges) = 2
    /\ edges[2] = memo.ret[1]
    /\ edges[2].source \in NodeIdsOf(nodes)
    /\ edges[2].target \notin NodeIdsOf(nodes)

(* C20 as claimed: with autoLayout, a change of the nodes or edges that
   leaves nodes to lay out is followed, once the timers have fired, by an
   applyLayout that has seen it *)
C20_EventuallyLaidOut == unlaid ~> ~unlaid

(* C21 as claimed: whatever createNode calls without an id, deleteNode calls
   and resetCounters calls have been made, the ids of the hook's node list
   are pairwise distinct *)
C21_NodeIdsDistinct ==
    pc = "hook" => \A i, j \in 1..Len(nodes) : nodes[i].id = nodes[j].id => i = j

(* depth-first pre-order over ids, as the specification words it: acc is the
   sequence of ids visited so far *)
RECURSIVE PreOrderFrom(_, _, _, _)
RECURSIVE PreOrderAlong(_, _, _, _)
PreOrderFrom(ns, es, v, acc) ==
    IF v \notin NodeIdsOf(ns) \/ v \in Range(acc) THEN acc
    ELSE PreOrderAlong(ns, es, SelectSeq(es, LAMBDA e : e.source = v), Append(acc, v))

PreOrderAlong(ns, es, outs, acc) ==
    IF outs = <<>> THEN acc
    ELSE PreOrderAlong(ns, es, Tail(outs), PreOrderFrom(ns, es, Head(outs).target, acc))

RECURSIVE PreOrderStarts(_, _, _, _)
PreOrderStarts(ns, es, starts, acc) ==
    IF starts = <<>> THEN acc
    ELSE PreOrderStarts(ns, es, Tail(starts), PreOrderFrom(ns, es, Head(starts), acc))

IdsOf(ns) == [i \in 1..Len(ns) |-> ns[i].id]

(* the nodes no edge of the list arrives at, in list order *)
Roots(ns, es) ==
    IdsOf(SelectSeq(ns, LAMBDA n : \A k \in 1..Len(es) : es[k].target # n.id))

PreOrder(ns, es) ==
    PreOrderStarts(ns, es, IdsOf(ns), PreOrderStarts(ns, es, Roots(ns, es), <<>>))

(* C22: when the traversal is over, orderedNodes is the depth-first
   pre-order that starts at each node without incoming edge in node-list
   order, follows the outgoing edges of a node in edge-list order, and then
   starts at each node still unvisited in node-list order; with no edges it
   is the input node list *)
C22_PreOrder ==
    pc \in {"sort", "layout", "done"} =>
        /\ IdsOf(orderedNodes) = PreOrder(nodes, edges)
        /\ edges = <<>> => orderedNodes = nodes

C22_Witness ==
    /\ pc = "layout"
    /\ memo.kind = "reordered"
    /\ IdsOf(nodes) = <<3, 2, 1>>
    /\ Len(edges) = 3
    /\ edges[1].source = 3 /\ edges[1].target = 1
    /\ edges[2].source = 3 /\ edges[2].target = 2
    /\ edges[3].source = 2 /\ edges[3].target = 3
    /\ Roots(nodes, edges) = <<>>
    /\ IdsOf(orderedNodes) = <<3, 1, 2>>

(* the place of an id in orderedNodes, counted from 0; -1 when it is not there *)
Ordinal(id) ==
    IF \E i \in 1..Len(orderedNodes) : orderedNodes[i].id = id
    THEN (CHOOSE i \in 1..Len(orderedNodes) : orderedNodes[i].id = id) - 1
    ELSE -1

(* a is not after b by target place, then source place, then id *)
EdgeLeq(a, b) ==
    \/ Ordinal(a.target) < Ordinal(b.target)
    \/ /\ Ordinal(a.target) = Ordinal(b.target)
       /\ \/ Ordinal(a.source) < Ordinal(b.source)
          \/ Ordinal(a.source) = Ordinal(b.source) /\ a.id <= b.id

(* C23: of two consecutive edges of orderedEdges the first is not after the
   second by (place of the target in orderedNodes, place of the source, edge
   id), an end that names no node counting as place -1; so the edges whose
   target names no node come before all others *)
C23_EdgesSorted ==
    pc \in {"layout", "done"} =>
        /\ \A k \in 1..(Len(orderedEdges) - 1) :
              EdgeLeq(orderedEdges[k], orderedEdges[k + 1])
        /\ \A i, j \in 1..Len(orderedEdges) :
              (/\ orderedEdges[i].target \notin NodeIdsOf(nodes)
               /\ orderedEdges[j].target \in NodeIdsOf(nodes)) => i < j

C23_Witness ==
    /\ pc = "layout"
    /\ memo.kind = "reordered"
    /\ Len(edges) = 3
    /\ edges[1].id = 3 /\ edges[2].id = 2 /\ edges[3].id = 1
    /\ edges[3].target \notin NodeIdsOf(nodes)
    /\ edges[1].source = edges[2].source
    /\ edges[1].target = edges[2].target
    /\ IdsOf(orderedEdges) = <<1, 2, 3>>

(* C24 as claimed: called again with the same nodes and the same edges, the
   node list or the edge list the other way round, the Orderer returns the
   same orderedNodes sequence as before *)
C24_OrderInsensitive ==
    (pc \in {"sort", "layout", "done"} /\ memo.kind = "reordered")
    => IdsOf(orderedNodes) = IdsOf(memo.out.nodes)

(* the position the vertical-extreme rule gives from a reference at ref *)
FromReference(handlerPosition, ref) ==
    [x |-> ref.x - (BoxWidth \div 2),
     y |-> IF handlerPosition = "top" THEN ref.y - BoxHeight - VerticalSpacing
           ELSE ref.y + BoxHeight + VerticalSpacing]

(* C25 as claimed: under TB a node with a handlerPosition and no afterNodeId
   is placed from a reference that is another node, one with the smallest
   (top) or largest (bottom) layered y among the other nodes; it keeps its
   layered position only when it is the only node *)
C25_ReferenceAmongOthers ==
    (pc = "done" /\ impl = "index" /\ config.rankdir = Some("TB")) =>
        \A i \in 1..Len(nodes) :
            (/\ IsDefined(nodes[i].data.handlerPosition)
             /\ nodes[i].data.afterNodeId = Undefined)
            => IF Len(nodes) = 1
               THEN out.nodes[i].position = BasePosition(DagreLayout(g), nodes[i].id)
               ELSE \E j \in (1..Len(nodes)) \ {i} :
                       LET ref == BasePosition(DagreLayout(g), nodes[j].id)
                           top == nodes[i].data.handlerPosition = Some("top")
                       IN  /\ ref.y = IF top THEN Min(OtherBaseYs(i)) ELSE Max(OtherBaseYs(i))
                           /\ out.nodes[i].position
                                 = FromReference(nodes[i].data.handlerPosition[1], ref)

(* the config with the direction written out as LR *)
ExplicitLR(cfg) == [cfg EXCEPT !.rankdir = Some("LR")]

(* C26 as claimed: with no direction in the config, layoutWorkflow lays out
   left to right and gives every node that is not placed after itself the
   position it gets from the same call with the direction LR; a node placed
   after another existing node sits at that node's layered position moved
   right by the box width plus the horizontal spacing *)
C26_DefaultDirection ==
    (pc = "done" /\ impl = "index" /\ config.rankdir = Undefined) =>
        /\ g.rankdir = "LR"
        /\ \A i \in 1..Len(nodes) :
              nodes[i].data.afterNodeId # Some(nodes[i].id) =>
                  /\ out.nodes[i].position
                        = LayoutOf(nodes, edges, ExplicitLR(config)).nodes[i].position
                  /\ i \in AfterResolved =>
                        out.nodes[i].position =
                            [x |-> ReferenceBase(i).x + BoxWidth + HorizontalSpacing,
                             y |-> ReferenceBase(i).y]

(* the width a vertex was given in the graph handed to Dagre *)
LayeringWidth(id) == Coalesce(g.label[IndexOf(g.vs, id)].width, 0)

(* C27 as claimed: a node without afterNodeId and handlerPosition is
   returned at Dagre's centre x less half the width it was given in the
   graph, and at Dagre's centre y *)
C27_TopLeftAnchor ==
    pc = "done" =>
        \A i \in 1..Len(out.nodes) :
            (/\ out.nodes[i].data.afterNodeId = Undefined
             /\ out.nodes[i].data.handlerPosition = Undefined)
            => LET centre == GraphNode(DagreLayout(g), out.nodes[i].id)
               IN  out.nodes[i].position
                      = [x |-> centre.x - (LayeringWidth(out.nodes[i].id) \div 2),
                         y |-> centre.y]

(* the edges whose two ends name a node of the list *)
WithoutDangling(ns, es) ==
    SelectSeq(es, LAMBDA e : e.source \in NodeIdsOf(ns) /\ e.target \in NodeIdsOf(ns))

(* C28 as claimed: an edge with an end that names no node adds no vertex to
   the graph handed to Dagre, and every node gets the position it gets from
   the same call without such edges *)
C28_DanglingEdgeNoEffect ==
    pc = "done" =>
        /\ Range(g.vs) \subseteq NodeIdsOf(nodes)
        /\ impl = "index" =>
              PositionsOf(out)
                  = PositionsOf(LayoutOf(nodes, WithoutDangling(nodes, edges), config))

(* C29: an applyLayout called while isLayouting is set returns the current
   nodes and edges and changes neither the nodes, the edges, the flag nor
   the timeouts; while the flag is set its reset is pending, and the flag is
   always false again later *)
C29_GuardReleased ==
    /\ [][(memo'.kind = "applyLayout" /\ isLayouting) =>
             /\ memo'.nodes = nodes
             /\ memo'.edges = edges
             /\ UNCHANGED <<nodes, edges, out, isLayouting, timers>>]_vars
    /\ [](isLayouting => timers.isLayouting = 1)
    /\ (isLayouting ~> ~isLayouting)

C29_Witness ==
    /\ pc = "auto"
    /\ memo.kind = "applyLayout"
    /\ isLayouting
    /\ unlaid
    /\ Len(nodes) = 2
    /\ memo.nodes = nodes
    /\ nodes # out.nodes

(* C30: at most one timeout of the effect is pending at any time, a layout
   that has just run leaves none pending, and once the caller makes no more
   changes there is a point after which none is pending any more *)
C30_Quiescence ==
    /\ [](timers.applyLayout <= 1)
    /\ [][(isLayouting' /\ ~isLayouting) => timers'.applyLayout = 0]_vars
    /\ <>[](timers.applyLayout = 0)

C30_Witness ==
    /\ pc = "auto"
    /\ timers.applyLayout = 1
    /\ ~isLayouting
    /\ out = NoOut
    /\ Len(nodes) = 2
    /\ Len(edges) = 1

====
